---- MODULE Spec2Model ----
(***************************************************************************)
(* Model of src/modules/reddit_listener.py: initialize_reddit (the auth    *)
(* session builder) and the generator stream_reddit_activity (the          *)
(* resilience controller around the two PRAW streams).                     *)
(*                                                                         *)
(* The generator is pull-driven: its body only runs between a consumer's   *)
(* next() and the yield / raise that answers it.  pc is the position of    *)
(* the generator body, consumer says who holds control.                    *)
(***************************************************************************)
EXTENDS Integers, Sequences, FiniteSets, TLC

\* ---------------------------------------------------------------- bounds
MaxItems == 3          \* items the platform produces in one run
MaxAttempts == 3       \* passes through the outer `while True`
JitterScale == 4       \* resolution of time.time() % 1 (jitter in 1/JitterScale)
MaxNames == 2          \* length of the sub_reddits list
MaxNameLen == 2        \* length of one subreddit name

\* ------------------------------------------------------ program constants
InitialBackoff == 5
max_backoff_seconds == 180
UnexpectedDelay == 15
IdleHalfSeconds == 1   \* time.sleep(0.5)

Min(a, b) == IF a <= b THEN a ELSE b
Max(a, b) == IF a >= b THEN a ELSE b

\* ----------------------------------------------------- exception classes
\* The classes named by the except clauses, with their base classes (prawcore
\* derives Forbidden, NotFound, InvalidToken, ServerError, BadRequest and
\* TooManyRequests from ResponseException); APIException is the class the
\* comment at line 147 leaves to the catch-all.
Parent ==
  [e \in {"BaseException", "KeyboardInterrupt", "GeneratorExit", "Exception",
          "PrawcoreException", "RequestException", "ResponseException",
          "OAuthException", "Forbidden", "NotFound", "InvalidToken",
          "ServerError", "BadRequest", "TooManyRequests", "APIException"} |->
     CASE e \in {"KeyboardInterrupt", "GeneratorExit", "Exception"} -> "BaseException"
       [] e \in {"PrawcoreException", "APIException"} -> "Exception"
       [] e \in {"RequestException", "ResponseException", "OAuthException"}
            -> "PrawcoreException"
       [] e \in {"Forbidden", "NotFound", "InvalidToken", "ServerError",
                 "BadRequest", "TooManyRequests"} -> "ResponseException"
       [] OTHER -> "BaseException"]

RECURSIVE IsInstance(_, _)
IsInstance(e, c) ==
  \/ e = c
  \/ e # "BaseException" /\ IsInstance(Parent[e], c)

\* What a call into PRAW (or a sleep, for KeyboardInterrupt) can raise.
LibraryErrors ==
  {"RequestException", "ResponseException", "OAuthException", "Forbidden",
   "NotFound", "InvalidToken", "ServerError", "BadRequest", "TooManyRequests",
   "APIException"}
Raisable == LibraryErrors \cup {"KeyboardInterrupt"}

\* ------------------------------------------------------------ credentials
required_env_vars ==
  {"REDDIT_CLIENT_ID", "REDDIT_CLIENT_SECRET", "REDDIT_USER_AGENT",
   "REDDIT_USERNAME", "REDDIT_PASSWORD"}

VARIABLES
  \* initialize_reddit
  env,              \* the required variables that are set in the environment
  authPc,           \* "start", "verify", "returned", "failed"
  clientConstructed,\* praw.Reddit(...) was called
  verifyCalls,      \* number of reddit.user.me() calls
  authError,        \* exception initialize_reddit raised, or "none"
  authCause,        \* the __cause__ of that exception, or "none"
  \* stream_reddit_activity
  pc,               \* position of the generator body
  consumer,         \* "idle", "pulling", "closing", "closed", "exhausted"
  raised,           \* exception in flight inside the try, or "none"
  backoff_seconds,  \* 0 while unbound (generator not started)
  sleep_for,        \* 0 while unbound
  submissions_stream, \* attempt that created the stream, 0 while unbound
  comments_stream,
  attempts,         \* passes through the outer loop so far
  sleeping,         \* argument of the time.sleep in progress, in half seconds; 0 if none
  nextId,           \* next item the platform will produce
  \* what the consumer and the cursors saw
  delivered,        \* items yielded to the consumer, in order
  signals,          \* exceptions raised to the consumer, in order
  roundPosts,       \* items the post cursor returned in this drain round
  roundComments,    \* items the comment cursor returned in this drain round
  roundYield,       \* items yielded in this drain round
  sleepRun,         \* backoff sleeps of the current run of consecutive transient errors
  raisedAt,         \* the call that raised `raised`, or "none"
  \* the argument sub_reddits and the string made of it
  sub_reddits,      \* list of names, each a sequence of characters
  subreddit_string  \* << >> while unbound

authVars == <<env, authPc, clientConstructed, verifyCalls, authError, authCause>>
genVars == <<pc, consumer, raised, backoff_seconds, sleep_for,
             submissions_stream, comments_stream, attempts, sleeping, nextId>>
obsVars == <<delivered, signals, roundPosts, roundComments, roundYield,
             sleepRun, raisedAt>>
argVars == <<sub_reddits, subreddit_string>>
vars == <<authVars, genVars, obsVars, argVars>>

\* ===================================================== initialize_reddit
\* The except clause around reddit.user.me() without RequestException.
VerifyCaughtNoRequest ==
  {"OAuthException", "InvalidToken", "Forbidden", "BadRequest",
   "ResponseException", "ServerError"}

\* The exception classes of the except clause around reddit.user.me().
VerifyCaught ==
  {"OAuthException", "InvalidToken", "Forbidden", "BadRequest",
   "ResponseException", "RequestException", "ServerError"}

Missing == required_env_vars \ env

\* Lines 36-55: load the environment and construct the client.  The list
\* required_env_vars is built but never consulted, so the constructor is
\* called whatever is set.  With a value missing, whether praw.Reddit(...)
\* returns or raises its own MissingRequiredAttributeException is the
\* library's choice.
Construct ==
  /\ authPc = "start"
  /\ clientConstructed' = TRUE
  /\ \/ /\ authPc' = "verify"
        /\ UNCHANGED <<authError, authCause>>
     \/ /\ Missing # {}
        /\ authPc' = "failed"
        /\ authError' = "MissingRequiredAttributeException"
        /\ authCause' = "none"
  /\ UNCHANGED <<env, verifyCalls, genVars, obsVars, argVars>>

\* Lines 58-72: the single reddit.user.me() call and its except clause.
Verify ==
  /\ authPc = "verify"
  /\ verifyCalls' = verifyCalls + 1
  /\ \/ /\ authPc' = "returned"
        /\ UNCHANGED <<authError, authCause>>
     \/ \E e \in Raisable :
          /\ authPc' = "failed"
          /\ IF \E c \in VerifyCaught : IsInstance(e, c)
               THEN authError' = "RuntimeError" /\ authCause' = e
               ELSE authError' = e /\ authCause' = "none"
  /\ UNCHANGED <<env, clientConstructed, genVars, obsVars, argVars>>

AuthIdle ==
  /\ authPc = "start"
  /\ clientConstructed = FALSE
  /\ verifyCalls = 0
  /\ authError = "none"
  /\ authCause = "none"

\* The session handed to stream_reddit_activity by __main__ (lines 168-174).
AuthReturned ==
  /\ env = required_env_vars
  /\ authPc = "returned"
  /\ clientConstructed = TRUE
  /\ verifyCalls = 1
  /\ authError = "none"
  /\ authCause = "none"

\* ================================================ stream_reddit_activity
\* jitter = 0.5 + (time.time() % 1) * 0.5, in units of 1/JitterScale: the
\* values of [0.5, 1.0) the clock can produce at that resolution.
Jitter == ((JitterScale + 1) \div 2) .. (JitterScale - 1)

\* Line 152 without the min(max_backoff_seconds, ...).
SleepForUncapped(b, j) == (b * (3 * JitterScale + 2 * j)) \div (2 * JitterScale)

\* Line 152: min(max_backoff_seconds, int(backoff_seconds * (1.5 + jitter))).
SleepFor(b, j) ==
  Min(max_backoff_seconds, (b * (3 * JitterScale + 2 * j)) \div (2 * JitterScale))

\* Line 155 without the doubling.
NextBackoffNoDoubling(s) == Min(max_backoff_seconds, Max(5, s))

\* Line 155: min(max_backoff_seconds, max(5, sleep_for * 2)).
NextBackoff(s) == Min(max_backoff_seconds, Max(5, s * 2))

\* The except clauses with the catch-all `except Exception` left out.
HandlersNoCatchAll ==
  << [classes |-> {"KeyboardInterrupt"}, body |-> "interrupt"],
     [classes |-> {"Forbidden", "NotFound"}, body |-> "access"],
     [classes |-> {"OAuthException", "InvalidToken"}, body |-> "auth"],
     [classes |-> {"RequestException", "ResponseException", "ServerError"},
      body |-> "transient"] >>

\* The except clauses with the transient clause ahead of the access clause.
HandlersTransientFirst ==
  << [classes |-> {"KeyboardInterrupt"}, body |-> "interrupt"],
     [classes |-> {"RequestException", "ResponseException", "ServerError"},
      body |-> "transient"],
     [classes |-> {"Forbidden", "NotFound"}, body |-> "access"],
     [classes |-> {"OAuthException", "InvalidToken"}, body |-> "auth"],
     [classes |-> {"Exception"}, body |-> "unexpected"] >>

\* The except clauses with InvalidToken missing from the auth clause.
HandlersNoInvalidToken ==
  << [classes |-> {"KeyboardInterrupt"}, body |-> "interrupt"],
     [classes |-> {"Forbidden", "NotFound"}, body |-> "access"],
     [classes |-> {"OAuthException"}, body |-> "auth"],
     [classes |-> {"RequestException", "ResponseException", "ServerError"},
      body |-> "transient"],
     [classes |-> {"Exception"}, body |-> "unexpected"] >>

\* The except clauses with a bare `except:` as the catch-all and no
\* KeyboardInterrupt clause.
HandlersBareExcept ==
  << [classes |-> {"Forbidden", "NotFound"}, body |-> "access"],
     [classes |-> {"OAuthException", "InvalidToken"}, body |-> "auth"],
     [classes |-> {"RequestException", "ResponseException", "ServerError"},
      body |-> "transient"],
     [classes |-> {"BaseException"}, body |-> "unexpected"] >>

\* The except clauses with the catch-all sharing the transient clause's body.
HandlersCatchAllBacksOff ==
  << [classes |-> {"KeyboardInterrupt"}, body |-> "interrupt"],
     [classes |-> {"Forbidden", "NotFound"}, body |-> "access"],
     [classes |-> {"OAuthException", "InvalidToken"}, body |-> "auth"],
     [classes |-> {"RequestException", "ResponseException", "ServerError"},
      body |-> "transient"],
     [classes |-> {"Exception"}, body |-> "transient"] >>

\* The except clauses of lines 131-160, in source order.
Handlers ==
  << [classes |-> {"KeyboardInterrupt"}, body |-> "interrupt"],
     [classes |-> {"Forbidden", "NotFound"}, body |-> "access"],
     [classes |-> {"OAuthException", "InvalidToken"}, body |-> "auth"],
     [classes |-> {"RequestException", "ResponseException", "ServerError"},
      body |-> "transient"],
     [classes |-> {"Exception"}, body |-> "unexpected"] >>

\* Python runs the first clause one of whose classes the exception is an
\* instance of; an exception no clause names leaves the generator.
Matching(e) ==
  {i \in DOMAIN Handlers : \E c \in Handlers[i].classes : IsInstance(e, c)}

Classify(e) ==
  IF Matching(e) = {} THEN "propagate"
  ELSE Handlers[CHOOSE i \in Matching(e) : \A k \in Matching(e) : i <= k].body

\* An item: its kind, its identity on the platform, the stream that returned
\* it (the pass that created the stream) and the pass during which it was
\* created on the platform (0: before the generator started).
Item(kind, id, pair, born) ==
  [kind |-> kind, id |-> id, pair |-> pair, born |-> born]

\* Both streams created without skip_existing=True.
skip_existing_off == FALSE

\* Lines 108-109: both streams are created with skip_existing=True.
skip_existing == TRUE

\* What the stream `stream` of kind `kind` can return next, apart from None:
\* the item the platform creates now, and, unless the stream skips them, an
\* item that existed when the stream was created (one from before the run,
\* or one an earlier stream returned) and that it has not returned yet.
StreamItems(kind, stream, skip) ==
  LET fresh == IF nextId <= MaxItems
                 THEN {Item(kind, nextId, stream, attempts)} ELSE {}
      old == {Item(kind, 0, stream, 0)} \cup
             {Item(kind, delivered[i].id, stream, delivered[i].born) :
                i \in {k \in DOMAIN delivered :
                         delivered[k].kind = kind /\ delivered[k].pair < stream}}
      seen == {delivered[i] : i \in DOMAIN delivered}
  IN  fresh \cup (IF skip THEN {} ELSE old \ seen)

AtYield == {"at_yield_post", "at_yield_comment"}

\* An exception raised inside the try block by the statement at `where`.
Raise(e, where) ==
  /\ pc' = "classifying"
  /\ raised' = e
  /\ raisedAt' = where

\* An exception leaving the generator: it is finished and the consumer's
\* next() raises the exception.
Terminate(e) ==
  /\ pc' = "finished"
  /\ signals' = Append(signals, e)
  /\ consumer' = "idle"

\* A comment loop that consumes the comment without yielding it.
YieldPostsOnly(item, at) ==
  IF item.kind = "post"
    THEN /\ pc' = at
         /\ delivered' = Append(delivered, item)
         /\ roundYield' = Append(roundYield, item)
         /\ consumer' = "idle"
    ELSE /\ pc' = "drain_comments"
         /\ UNCHANGED <<delivered, roundYield, consumer>>

\* `yield item`: the generator is suspended and next() returns the item.
Yield(item, at) ==
  /\ pc' = at
  /\ delivered' = Append(delivered, item)
  /\ roundYield' = Append(roundYield, item)
  /\ consumer' = "idle"

\* ------------------------------------------------------- subreddit_string
\* The characters str.strip() removes.
Whitespace == {" ", "\t", "\n"}

RECURSIVE LStrip(_)
LStrip(s) ==
  IF s # << >> /\ Head(s) \in Whitespace THEN LStrip(Tail(s)) ELSE s

RECURSIVE RStrip(_)
RStrip(s) ==
  IF s # << >> /\ s[Len(s)] \in Whitespace
    THEN RStrip(SubSeq(s, 1, Len(s) - 1)) ELSE s

\* s.lstrip() in place of s.strip().
StripLeftOnly(s) == LStrip(s)

\* s.strip()
Strip(s) == RStrip(LStrip(s))

\* sep.join(parts)
RECURSIVE Join(_, _)
Join(sep, parts) ==
  IF parts = << >> THEN << >>
  ELSE IF Len(parts) = 1 THEN parts[1]
  ELSE parts[1] \o sep \o Join(sep, Tail(parts))

\* Line 94: '+'.join(s.strip() for s in sub_reddits)
SubredditString(names) ==
  Join(<<"+">>, [i \in DOMAIN names |-> Strip(names[i])])

\* Line 171: ['smallbusiness', 'learnpython']
test_subreddits ==
  << <<"s", "m", "a", "l", "l", "b", "u", "s", "i", "n", "e", "s", "s">>,
     <<"l", "e", "a", "r", "n", "p", "y", "t", "h", "o", "n">> >>

\* ------------------------------------------------------------ the consumer
\* First next(): lines 94-101 run and the outer loop is entered.
Start ==
  /\ consumer = "idle"
  /\ pc = "unstarted"
  /\ consumer' = "pulling"
  /\ pc' = "connecting"
  /\ subreddit_string' = SubredditString(sub_reddits)
  /\ backoff_seconds' = InitialBackoff
  /\ UNCHANGED <<authVars, sub_reddits, raised, sleep_for, submissions_stream, comments_stream,
                 attempts, sleeping, nextId, obsVars>>

\* next() on the generator suspended at a yield: the for loop goes on.
Pull ==
  /\ consumer = "idle"
  /\ pc \in AtYield
  /\ consumer' = "pulling"
  /\ pc' = IF pc = "at_yield_post" THEN "drain_posts" ELSE "drain_comments"
  /\ UNCHANGED <<authVars, argVars, raised, backoff_seconds, sleep_for, submissions_stream,
                 comments_stream, attempts, sleeping, nextId, obsVars>>

\* A sequence that restarts its loop when pulled after it ended.
PullRestarts ==
  /\ consumer = "idle"
  /\ pc = "finished"
  /\ consumer' = "pulling"
  /\ pc' = "connecting"
  /\ UNCHANGED <<authVars, argVars, raised, backoff_seconds, sleep_for,
                 submissions_stream, comments_stream, attempts, sleeping, nextId, obsVars>>

\* next() on the finished generator: StopIteration, nothing runs.
PullFinished ==
  /\ consumer = "idle"
  /\ pc = "finished"
  /\ consumer' = "exhausted"
  /\ UNCHANGED <<authVars, argVars, pc, raised, backoff_seconds, sleep_for,
                 submissions_stream, comments_stream, attempts, sleeping, nextId, obsVars>>

\* close() on the suspended generator: GeneratorExit is raised at the yield,
\* inside the try block.
Close ==
  /\ consumer = "idle"
  /\ pc \in AtYield
  /\ consumer' = "closing"
  /\ Raise("GeneratorExit", "yield")
  /\ UNCHANGED <<authVars, argVars, backoff_seconds, sleep_for, submissions_stream,
                 comments_stream, attempts, sleeping, nextId, delivered, signals,
                 roundPosts, roundComments, roundYield, sleepRun>>

\* ------------------------------------------------- the body of the try
\* Lines 108-109 without the reset of line 112.
StreamsStartedNoReset ==
  /\ submissions_stream' = attempts + 1
  /\ comments_stream' = attempts + 1
  /\ UNCHANGED backoff_seconds

\* Lines 108-112 with the comment stream created once and kept.
StreamsStartedKeepsComments ==
  /\ submissions_stream' = attempts + 1
  /\ comments_stream' = IF comments_stream = 0 THEN attempts + 1 ELSE comments_stream
  /\ backoff_seconds' = 5

\* Lines 108-112 with both calls returning.
StreamsStarted ==
  /\ submissions_stream' = attempts + 1
  /\ comments_stream' = attempts + 1
  /\ backoff_seconds' = 5

\* Lines 104-112: create the two streams, then reset the backoff.  Either
\* call is inside the try, so what it raises reaches the except clauses;
\* the second one failing leaves submissions_stream already rebound.
Connect ==
  /\ consumer = "pulling"
  /\ pc = "connecting"
  /\ attempts < MaxAttempts
  /\ attempts' = attempts + 1
  /\ \/ /\ StreamsStarted
        /\ pc' = "drain_posts"
        /\ roundPosts' = << >>
        /\ roundComments' = << >>
        /\ roundYield' = << >>
        /\ UNCHANGED <<raised, raisedAt>>
     \/ \E e \in Raisable :
          /\ Raise(e, "connect")
          /\ \/ UNCHANGED submissions_stream
             \/ submissions_stream' = attempts + 1
          /\ UNCHANGED <<comments_stream, backoff_seconds, roundPosts,
                         roundComments, roundYield>>
  /\ UNCHANGED <<authVars, argVars, consumer, sleep_for, sleeping, nextId, delivered,
                 signals, sleepRun>>

\* Lines 117-120: one step of `for submission in submissions_stream`.
PollSubmissions ==
  /\ consumer = "pulling"
  /\ pc = "drain_posts"
  /\ \/ /\ \E item \in StreamItems("post", submissions_stream, skip_existing) :
             /\ nextId' = IF item.id = nextId THEN nextId + 1 ELSE nextId
             /\ roundPosts' = Append(roundPosts, item)
             /\ Yield(item, "at_yield_post")
        /\ sleepRun' = << >>
        /\ UNCHANGED <<raised, raisedAt>>
     \/ /\ pc' = "drain_comments"
        /\ UNCHANGED <<consumer, nextId, delivered, roundPosts, roundYield,
                       sleepRun, raised, raisedAt>>
     \/ \E e \in Raisable :
          /\ Raise(e, "poll")
          /\ UNCHANGED <<consumer, nextId, delivered, roundPosts, roundYield,
                         sleepRun>>
  /\ UNCHANGED <<authVars, argVars, backoff_seconds, sleep_for, submissions_stream,
                 comments_stream, attempts, sleeping, signals, roundComments>>

\* The comment loop with the sleep of line 129 skipped after a pass that
\* yielded an item.
PollCommentsSleepIfIdle ==
  /\ consumer = "pulling"
  /\ pc = "drain_comments"
  /\ \/ /\ \E item \in StreamItems("comment", comments_stream, skip_existing) :
             /\ nextId' = IF item.id = nextId THEN nextId + 1 ELSE nextId
             /\ roundComments' = Append(roundComments, item)
             /\ Yield(item, "at_yield_comment")
        /\ sleepRun' = << >>
        /\ UNCHANGED <<raised, raisedAt, sleeping>>
     \/ /\ roundYield = << >>
        /\ pc' = "idle_sleep"
        /\ sleeping' = IdleHalfSeconds
        /\ UNCHANGED <<consumer, nextId, delivered, roundComments, roundYield,
                       sleepRun, raised, raisedAt>>
     \/ /\ roundYield # << >>
        /\ pc' = "drain_posts"
        /\ roundComments' = << >>
        /\ roundYield' = << >>
        /\ UNCHANGED <<consumer, nextId, delivered, sleepRun, raised, raisedAt,
                       sleeping>>
     \/ \E e \in Raisable :
          /\ Raise(e, "poll")
          /\ UNCHANGED <<consumer, nextId, delivered, roundComments, roundYield,
                         sleepRun, sleeping>>
  /\ UNCHANGED <<authVars, argVars, backoff_seconds, sleep_for, submissions_stream,
                 comments_stream, attempts, signals, roundPosts>>

\* Lines 123-126: one step of `for comment in comments_stream`.
PollComments ==
  /\ consumer = "pulling"
  /\ pc = "drain_comments"
  /\ \/ /\ \E item \in StreamItems("comment", comments_stream, skip_existing) :
             /\ nextId' = IF item.id = nextId THEN nextId + 1 ELSE nextId
             /\ roundComments' = Append(roundComments, item)
             /\ Yield(item, "at_yield_comment")
        /\ sleepRun' = << >>
        /\ UNCHANGED <<raised, raisedAt, sleeping>>
     \/ /\ pc' = "idle_sleep"
        /\ sleeping' = IdleHalfSeconds
        /\ UNCHANGED <<consumer, nextId, delivered, roundComments, roundYield,
                       sleepRun, raised, raisedAt>>
     \/ \E e \in Raisable :
          /\ Raise(e, "poll")
          /\ UNCHANGED <<consumer, nextId, delivered, roundComments, roundYield,
                         sleepRun, sleeping>>
  /\ UNCHANGED <<authVars, argVars, backoff_seconds, sleep_for, submissions_stream,
                 comments_stream, attempts, signals, roundPosts>>

\* Line 129: time.sleep(0.5) returns and the inner loop starts the next round.
IdleSleepDone ==
  /\ consumer = "pulling"
  /\ pc = "idle_sleep"
  /\ pc' = "drain_posts"
  /\ sleeping' = 0
  /\ roundPosts' = << >>
  /\ roundComments' = << >>
  /\ roundYield' = << >>
  /\ UNCHANGED <<authVars, argVars, consumer, raised, raisedAt, backoff_seconds, sleep_for,
                 submissions_stream, comments_stream, attempts, nextId,
                 delivered, signals, sleepRun>>

\* Line 129: Ctrl+C during time.sleep(0.5), inside the try block.
IdleSleepInterrupted ==
  /\ consumer = "pulling"
  /\ pc = "idle_sleep"
  /\ sleeping' = 0
  /\ Raise("KeyboardInterrupt", "idle_sleep")
  /\ UNCHANGED <<authVars, argVars, consumer, backoff_seconds, sleep_for,
                 submissions_stream, comments_stream, attempts, nextId,
                 delivered, signals, roundPosts, roundComments, roundYield,
                 sleepRun>>

\* ------------------------------------------------------ the except clauses
Handling(body) ==
  /\ consumer \in {"pulling", "closing"}
  /\ pc = "classifying"
  /\ Classify(raised) = body

\* The exception in flight leaves the generator (a bare `raise`, or no clause
\* matched); close() swallows the GeneratorExit it threw.
Reraise ==
  /\ pc' = "finished"
  /\ IF consumer = "closing" /\ raised = "GeneratorExit"
       THEN consumer' = "closed" /\ UNCHANGED signals
       ELSE consumer' = "idle" /\ signals' = Append(signals, raised)
  /\ UNCHANGED <<authVars, argVars, raised, raisedAt, backoff_seconds, sleep_for,
                 submissions_stream, comments_stream, attempts, sleeping, nextId,
                 delivered, roundPosts, roundComments, roundYield, sleepRun>>

\* Lines 131-134.
HandleKeyboardInterrupt == Handling("interrupt") /\ Reraise

\* Lines 135-138.
HandleAccess == Handling("access") /\ Reraise

\* Lines 139-142.
HandleAuth == Handling("auth") /\ Reraise

\* No clause matches (GeneratorExit from close()).
Propagate == Handling("propagate") /\ Reraise

\* Lines 150-154: compute the jittered sleep and enter time.sleep(sleep_for).
HandleTransient ==
  /\ Handling("transient")
  /\ \E j \in Jitter :
       /\ sleep_for' = SleepFor(backoff_seconds, j)
       /\ sleeping' = 2 * SleepFor(backoff_seconds, j)
       /\ sleepRun' = Append(sleepRun, SleepFor(backoff_seconds, j))
  /\ pc' = "backing_off"
  /\ UNCHANGED <<authVars, argVars, consumer, raised, raisedAt, backoff_seconds,
                 submissions_stream, comments_stream, attempts, nextId,
                 delivered, signals, roundPosts, roundComments, roundYield>>

\* Lines 154-155: the sleep returns, the backoff grows, the outer loop repeats.
BackoffDone ==
  /\ consumer = "pulling"
  /\ pc = "backing_off"
  /\ backoff_seconds' = NextBackoff(sleep_for)
  /\ sleeping' = 0
  /\ pc' = "connecting"
  /\ raised' = "none"
  /\ raisedAt' = "none"
  /\ UNCHANGED <<authVars, argVars, consumer, sleep_for, submissions_stream,
                 comments_stream, attempts, nextId, delivered, signals,
                 roundPosts, roundComments, roundYield, sleepRun>>

\* Lines 158-160: enter time.sleep(15).
HandleUnexpected ==
  /\ Handling("unexpected")
  /\ sleeping' = 2 * UnexpectedDelay
  /\ sleepRun' = << >>
  /\ pc' = "fixed_sleep"
  /\ UNCHANGED <<authVars, argVars, consumer, raised, raisedAt, backoff_seconds, sleep_for,
                 submissions_stream, comments_stream, attempts, nextId,
                 delivered, signals, roundPosts, roundComments, roundYield>>

\* Line 160: the sleep returns and the outer loop repeats.
FixedSleepDone ==
  /\ consumer = "pulling"
  /\ pc = "fixed_sleep"
  /\ sleeping' = 0
  /\ pc' = "connecting"
  /\ raised' = "none"
  /\ raisedAt' = "none"
  /\ UNCHANGED <<authVars, argVars, consumer, backoff_seconds, sleep_for,
                 submissions_stream, comments_stream, attempts, nextId,
                 delivered, signals, roundPosts, roundComments, roundYield,
                 sleepRun>>

\* Lines 154 and 160: Ctrl+C during a sleep inside an except clause.  No
\* clause of the same try catches it: it leaves the generator at once.
HandlerSleepInterrupted ==
  /\ consumer = "pulling"
  /\ pc \in {"backing_off", "fixed_sleep"}
  /\ raised' = "KeyboardInterrupt"
  /\ raisedAt' = pc
  /\ sleeping' = 0
  /\ Terminate("KeyboardInterrupt")
  /\ UNCHANGED <<authVars, argVars, backoff_seconds, sleep_for, submissions_stream,
                 comments_stream, attempts, nextId, delivered, roundPosts,
                 roundComments, roundYield, sleepRun>>

\* ============================================================== behaviours
GenIdle ==
  /\ pc = "unstarted"
  /\ consumer = "idle"
  /\ raised = "none"
  /\ raisedAt = "none"
  /\ backoff_seconds = 0
  /\ sleep_for = 0
  /\ submissions_stream = 0
  /\ comments_stream = 0
  /\ attempts = 0
  /\ sleeping = 0
  /\ nextId = 1
  /\ delivered = << >>
  /\ signals = << >>
  /\ roundPosts = << >>
  /\ roundComments = << >>
  /\ roundYield = << >>
  /\ sleepRun = << >>
  /\ subreddit_string = << >>

\* stream_reddit_activity over the session initialize_reddit returned.
Init == AuthReturned /\ GenIdle /\ sub_reddits = test_subreddits

Next ==
  \/ Start \/ Pull \/ PullFinished \/ Close
  \/ Connect \/ PollSubmissions \/ PollComments
  \/ IdleSleepDone \/ IdleSleepInterrupted
  \/ HandleKeyboardInterrupt \/ HandleAccess \/ HandleAuth \/ Propagate
  \/ HandleTransient \/ BackoffDone
  \/ HandleUnexpected \/ FixedSleepDone
  \/ HandlerSleepInterrupted

Spec == Init /\ [][Next]_vars

\* The generator with time passing and the single thread going on: a handler
\* that was entered runs, a time.sleep that was entered returns unless it is
\* interrupted, and the outer loop then starts its next pass.
Fairness ==
  /\ WF_vars(HandleKeyboardInterrupt)
  /\ WF_vars(HandleAccess)
  /\ WF_vars(HandleAuth)
  /\ WF_vars(Propagate)
  /\ WF_vars(HandleTransient)
  /\ WF_vars(HandleUnexpected)
  /\ WF_vars(BackoffDone)
  /\ WF_vars(FixedSleepDone)
  /\ WF_vars(Connect)

\* The same generator on a platform that creates one item during the run: the
\* retry loop does not depend on how many items there are.
InitLive ==
  /\ AuthReturned
  /\ sub_reddits = test_subreddits
  /\ pc = "unstarted"
  /\ consumer = "idle"
  /\ raised = "none"
  /\ raisedAt = "none"
  /\ backoff_seconds = 0
  /\ sleep_for = 0
  /\ submissions_stream = 0
  /\ comments_stream = 0
  /\ attempts = 0
  /\ sleeping = 0
  /\ nextId = MaxItems
  /\ delivered = << >>
  /\ signals = << >>
  /\ roundPosts = << >>
  /\ roundComments = << >>
  /\ roundYield = << >>
  /\ sleepRun = << >>
  /\ subreddit_string = << >>

SpecLive == InitLive /\ [][Next]_vars /\ Fairness

\* initialize_reddit over every subset of the required variables.
InitAuth ==
  /\ env \in SUBSET required_env_vars
  /\ AuthIdle
  /\ GenIdle
  /\ sub_reddits = test_subreddits

NextAuth == Construct \/ Verify

SpecAuth == InitAuth /\ [][NextAuth]_vars

\* The first lines of stream_reddit_activity over every short list of short
\* names made of letters and blanks.
NameChars == {"a", "b", " "}
Names == UNION {[1 .. n -> NameChars] : n \in 0 .. MaxNameLen}
NameLists == UNION {[1 .. n -> Names] : n \in 0 .. MaxNames}

InitJoin == AuthReturned /\ GenIdle /\ sub_reddits \in NameLists

NextJoin == Start

SpecJoin == InitJoin /\ [][NextJoin]_vars

\* ================================================================== claims
StreamsOf == <<submissions_stream, comments_stream>>

\* The classes the controller is to retry: the transient classes and, for the
\* unclassified ones, APIException.
RetriedErrors ==
  {"RequestException", "ResponseException", "ServerError", "TooManyRequests",
   "APIException"}
AccessErrors == {"Forbidden", "NotFound"}
AuthErrors == {"OAuthException", "InvalidToken"}
TerminalSignals == AccessErrors \cup AuthErrors \cup {"KeyboardInterrupt"}
SleepPoints == {"idle_sleep", "backing_off", "fixed_sleep"}

\* C1: with a required variable missing, initialize_reddit fails with
\* ValueError before the client is constructed and before any network call.
C1_MissingFailsBeforeNetwork ==
  (Missing # {} /\ authPc # "start") =>
     /\ authError = "ValueError"
     /\ ~clientConstructed
     /\ verifyCalls = 0

\* C2: a transient or unclassified error caught in the try is never raised to
\* the consumer: its handler sleeps, the sleep leads back to connecting (or to
\* a cancellation), and every signal the consumer gets is a terminal one.
C2_RetriedAbsorbed ==
  /\ [][(pc = "classifying" /\ raised \in RetriedErrors) =>
          /\ pc' \in {"backing_off", "fixed_sleep"}
          /\ sleeping' > 0
          /\ signals' = signals
          /\ consumer' = "pulling"]_vars
  /\ [][(pc \in {"backing_off", "fixed_sleep"} /\ pc' # pc) =>
          \/ pc' = "connecting" /\ signals' = signals
          \/ pc' = "finished" /\ signals' = Append(signals, "KeyboardInterrupt")]_vars
  /\ [](\A i \in DOMAIN signals : signals[i] \in TerminalSignals)

C2_Witness ==
  /\ pc = "connecting"
  /\ attempts = 2
  /\ sleepRun # << >>
  /\ consumer = "pulling"
  /\ signals = << >>

\* C3: at most one terminal signal, and after it nothing more happens: no
\* item, no poll, no sleep, no new stream.
C3_TerminalIsFinal ==
  /\ [](Len(signals) <= 1)
  /\ [][signals # << >> =>
          /\ signals' = signals
          /\ delivered' = delivered
          /\ pc = "finished" /\ pc' = "finished"
          /\ sleeping = 0 /\ sleeping' = 0
          /\ attempts' = attempts
          /\ StreamsOf' = StreamsOf]_vars

C3_Witness ==
  /\ Len(signals) = 1
  /\ consumer = "exhausted"
  /\ delivered # << >>

\* C4: Forbidden and NotFound, although ResponseExceptions, are re-raised to
\* the consumer at once: no sleep, no new streams.
C4_AccessIsFatal ==
  [][(pc = "classifying" /\ raised \in AccessErrors) =>
       /\ pc' = "finished"
       /\ signals' = Append(signals, raised)
       /\ consumer' = "idle"
       /\ sleeping' = 0
       /\ sleep_for' = sleep_for
       /\ backoff_seconds' = backoff_seconds
       /\ attempts' = attempts
       /\ StreamsOf' = StreamsOf]_vars

C4_Witness ==
  /\ pc = "finished"
  /\ signals = <<"Forbidden">>
  /\ raisedAt = "poll"
  /\ attempts = 2

\* C5: OAuthException and InvalidToken are re-raised to the consumer at once
\* and never retried.
C5_AuthIsFatal ==
  [][(pc = "classifying" /\ raised \in AuthErrors) =>
       /\ pc' = "finished"
       /\ signals' = Append(signals, raised)
       /\ consumer' = "idle"
       /\ sleeping' = 0
       /\ sleep_for' = sleep_for
       /\ attempts' = attempts
       /\ StreamsOf' = StreamsOf]_vars

C5_Witness ==
  /\ pc = "finished"
  /\ signals = <<"InvalidToken">>
  /\ raisedAt = "poll"
  /\ delivered # << >>

\* C6: a KeyboardInterrupt arriving in any of the three sleeps ends the
\* sequence with KeyboardInterrupt, and no stream is created after it.
C6_CancelStops ==
  /\ []((raised = "KeyboardInterrupt" /\ raisedAt \in SleepPoints
           /\ pc # "classifying") =>
          (pc = "finished" /\ signals = <<"KeyboardInterrupt">>))
  /\ [][(raised = "KeyboardInterrupt" /\ raisedAt \in SleepPoints) =>
          /\ pc' = "finished"
          /\ attempts' = attempts
          /\ StreamsOf' = StreamsOf]_vars

C6_Witness ==
  /\ raised = "KeyboardInterrupt"
  /\ raisedAt = "backing_off"
  /\ signals = <<"KeyboardInterrupt">>
  /\ consumer = "exhausted"

\* C7: the backoff sleeps of consecutive transient errors never decrease.
C7_SleepsNonDecreasing ==
  \A i \in 1 .. (Len(sleepRun) - 1) : sleepRun[i] <= sleepRun[i + 1]

\* C8: once the generator runs, 5 <= backoff_seconds <= 180, and no computed
\* backoff sleep exceeds 180.
C8_DelayBounds ==
  pc # "unstarted" =>
     /\ InitialBackoff <= backoff_seconds
     /\ backoff_seconds <= max_backoff_seconds
     /\ sleep_for <= max_backoff_seconds
     /\ \A i \in DOMAIN sleepRun : sleepRun[i] <= max_backoff_seconds
     /\ sleeping <= 2 * max_backoff_seconds

C8_Witness ==
  /\ pc = "connecting"
  /\ backoff_seconds = max_backoff_seconds
  /\ sleep_for = max_backoff_seconds
  /\ Len(sleepRun) = 3

\* C9: once a later pass has created both streams, backoff_seconds is 5 until
\* the handler of the next failure has finished its sleep.
ReconnectSucceeded ==
  /\ attempts >= 2
  /\ submissions_stream = attempts
  /\ comments_stream = attempts

C9_ResetOnReconnect ==
  (ReconnectSucceeded /\ pc # "connecting") => backoff_seconds = InitialBackoff

C9_Witness ==
  /\ ReconnectSucceeded
  /\ pc = "classifying"
  /\ raised = "ServerError"
  /\ sleep_for >= 40
  /\ backoff_seconds = InitialBackoff

\* C10: in a drain round the consumer gets the items the post cursor
\* returned, in order, then the items the comment cursor returned, in order.
C10_DrainOrder ==
  /\ roundYield = roundPosts \o roundComments
  /\ \A i \in DOMAIN roundPosts : roundPosts[i].kind = "post"
  /\ \A i \in DOMAIN roundComments : roundComments[i].kind = "comment"
  /\ pc \in {"drain_posts", "at_yield_post"} => roundComments = << >>
  /\ Len(roundYield) <= Len(delivered)
  /\ \A i \in DOMAIN roundYield :
       delivered[Len(delivered) - Len(roundYield) + i] = roundYield[i]

C10_Witness ==
  /\ pc = "idle_sleep"
  /\ Len(roundPosts) = 2
  /\ Len(roundComments) = 1
  /\ roundYield = roundPosts \o roundComments

\* C11: every item a stream yielded was created after that stream was
\* created: none is from before the run, none was created during an earlier
\* pass, and so none is yielded twice.
C11_OnlyNewItems ==
  /\ \A i \in DOMAIN delivered :
       /\ delivered[i].id >= 1
       /\ delivered[i].born >= delivered[i].pair
  /\ \A i, k \in DOMAIN delivered :
       (delivered[i].kind = delivered[k].kind /\ delivered[i].id = delivered[k].id)
         => i = k

C11_Witness ==
  /\ Len(delivered) = 3
  /\ delivered[1].kind = "post" /\ delivered[1].pair = 1
  /\ delivered[2].kind = "post" /\ delivered[2].pair = 2
  /\ delivered[3].kind = "comment" /\ delivered[3].pair = 2

\* C12: subreddit_string is the names, each without its leading and trailing
\* whitespace, in input order, one '+' between neighbours, nothing removed.
IsBlank(c) == c \in {" ", "\t", "\n"}

TrimOf(s) ==
  CHOOSE t \in {SubSeq(s, a, b) : a \in 1 .. Len(s) + 1, b \in 0 .. Len(s)} :
    \E a \in 1 .. Len(s) + 1, b \in 0 .. Len(s) :
      /\ t = SubSeq(s, a, b)
      /\ \A i \in 1 .. a - 1 : IsBlank(s[i])
      /\ \A i \in b + 1 .. Len(s) : IsBlank(s[i])
      /\ t = << >> \/ (~IsBlank(t[1]) /\ ~IsBlank(t[Len(t)]))

RECURSIVE EndOf(_, _)
EndOf(t, n) == IF n = 0 THEN 0 ELSE EndOf(t, n - 1) + (IF n > 1 THEN 1 ELSE 0) + Len(t[n])

C12_JoinedTrimmed ==
  pc # "unstarted" =>
    LET t == [i \in DOMAIN sub_reddits |-> TrimOf(sub_reddits[i])]
        n == Len(sub_reddits)
    IN  /\ Len(subreddit_string) = EndOf(t, n)
        /\ \A i \in 1 .. n :
             /\ SubSeq(subreddit_string, EndOf(t, i) - Len(t[i]) + 1, EndOf(t, i)) = t[i]
             /\ i > 1 => subreddit_string[EndOf(t, i) - Len(t[i])] = "+"

C12_Witness ==
  /\ pc = "connecting"
  /\ sub_reddits = << <<" ", "a">>, <<"a", " ">> >>
  /\ subreddit_string = <<"a", "+", "a">>

\* C13: initialize_reddit returns only after its one reddit.user.me() call
\* returned; an authorization, token, permission, malformed-request, response,
\* network or server error of that call becomes a RuntimeError with the error
\* as its cause, and the call is not repeated.
VerificationErrors ==
  {"OAuthException", "InvalidToken", "Forbidden", "BadRequest",
   "ResponseException", "NotFound", "TooManyRequests", "RequestException",
   "ServerError"}

C13_VerifyOnceAndWrap ==
  /\ verifyCalls <= 1
  /\ authPc = "returned" =>
       (verifyCalls = 1 /\ authError = "none" /\ authCause = "none")
  /\ authError \notin VerificationErrors
  /\ authError = "RuntimeError" =>
       (authPc = "failed" /\ verifyCalls = 1 /\ authCause \in VerificationErrors)
  /\ authCause # "none" => authError = "RuntimeError"

C13_Witness ==
  /\ authPc = "failed"
  /\ verifyCalls = 1
  /\ authError = "RuntimeError"
  /\ authCause = "ServerError"
  /\ Missing = {}

\* C14: the generator body runs only inside a next() call: while the consumer
\* holds control nothing is polled, slept or created, and close() ends the
\* generator without a sleep, a retry or a signal; after it nothing happens.
ConsumerHasControl == consumer \in {"idle", "closed", "exhausted"}

C14_PullDriven ==
  /\ [](ConsumerHasControl =>
          (sleeping = 0 /\ pc \in {"unstarted", "finished"} \cup AtYield))
  /\ [][ConsumerHasControl =>
          /\ attempts' = attempts
          /\ StreamsOf' = StreamsOf
          /\ sleeping' = 0
          /\ delivered' = delivered
          /\ nextId' = nextId]_vars
  /\ [][consumer = "closing" =>
          /\ consumer' = "closed"
          /\ pc' = "finished"
          /\ signals' = signals
          /\ sleeping' = 0
          /\ attempts' = attempts
          /\ delivered' = delivered]_vars
  /\ [][consumer = "closed" => UNCHANGED vars]_vars

C14_Witness ==
  /\ consumer = "closed"
  /\ pc = "finished"
  /\ raised = "GeneratorExit"
  /\ Len(delivered) >= 2
  /\ attempts >= 2
  /\ signals = << >>

\* C15: the handler of a transient error sleeps
\* min(180, floor(backoff_seconds * (1.5 + jitter))) for a jitter in [0.5, 1.0)
\* and, the sleep over, sets backoff_seconds to min(180, max(5, 2 * sleep_for)).
TransientErrors ==
  {"RequestException", "ResponseException", "ServerError", "TooManyRequests",
   "BadRequest"}

\* n = floor(b * (1.5 + j / JitterScale))
IsFloorOfScaled(n, b, j) ==
  /\ n * 2 * JitterScale <= b * (3 * JitterScale + 2 * j)
  /\ b * (3 * JitterScale + 2 * j) < (n + 1) * 2 * JitterScale

C15_BackoffArithmetic ==
  /\ [](pc = "backing_off" => (5 <= backoff_seconds /\ backoff_seconds <= 180))
  /\ [][(pc = "classifying" /\ raised \in TransientErrors) =>
          /\ pc' = "backing_off"
          /\ backoff_seconds' = backoff_seconds
          /\ sleeping' = 2 * sleep_for'
          /\ \E j \in 0 .. JitterScale :
               /\ JitterScale <= 2 * j /\ j < JitterScale
               /\ IF backoff_seconds * (3 * JitterScale + 2 * j)
                       >= 180 * 2 * JitterScale
                  THEN sleep_for' = 180
                  ELSE IsFloorOfScaled(sleep_for', backoff_seconds, j)]_vars
  /\ [][(pc = "backing_off" /\ pc' = "connecting") =>
          /\ sleep_for' = sleep_for
          /\ backoff_seconds' =
               IF 2 * sleep_for < 5 THEN 5
               ELSE IF 2 * sleep_for > 180 THEN 180 ELSE 2 * sleep_for]_vars

C15_Witness ==
  /\ pc = "connecting"
  /\ raised = "none"
  /\ sleep_for = 45
  /\ backoff_seconds = 90

\* C16: the handler of an error no named clause matches sleeps 15 seconds
\* whatever the delay and the clock, and leaves backoff_seconds as it was.
UnclassifiedErrors == {"APIException"}

C16_UnexpectedFixedDelay ==
  /\ [](pc = "fixed_sleep" => sleeping = 2 * 15)
  /\ [][(pc = "classifying" /\ raised \in UnclassifiedErrors) =>
          /\ pc' = "fixed_sleep"
          /\ backoff_seconds' = backoff_seconds
          /\ sleep_for' = sleep_for
          /\ sleepRun' = << >>]_vars
  /\ [][pc = "fixed_sleep" =>
          /\ backoff_seconds' = backoff_seconds
          /\ sleep_for' = sleep_for
          /\ pc' \in {"connecting", "finished"}]_vars

C16_Witness ==
  /\ pc = "connecting"
  /\ attempts = 3
  /\ backoff_seconds = 90
  /\ sleepRun = << >>
  /\ raised = "none"

\* C17 as claimed: the idle sleep is never taken after a pass that yielded
\* an item.
C17_NoSleepAfterItems == pc = "idle_sleep" => roundYield = << >>

\* C17 as amended: a pass drains the post stream until it returns None, then
\* the comment stream until it returns None, and then always sleeps 0.5
\* seconds before the next pass, whether or not the pass yielded an item.
C17_SleepAfterEveryPass ==
  /\ [](sleeping = IdleHalfSeconds <=> pc = "idle_sleep")
  /\ [][(pc = "drain_posts" /\ pc' \notin {"drain_posts", "at_yield_post", "classifying"})
          => pc' = "drain_comments"]_vars
  /\ [][(pc = "drain_comments"
           /\ pc' \notin {"drain_comments", "at_yield_comment", "classifying"})
          => pc' = "idle_sleep"]_vars
  /\ [][(pc' = "idle_sleep" /\ pc # "idle_sleep") =>
          (pc = "drain_comments" /\ delivered' = delivered /\ roundYield' = roundYield)]_vars
  /\ [][(pc = "idle_sleep" /\ pc' # "idle_sleep") =>
          pc' \in {"drain_posts", "classifying"}]_vars

C17_Witness ==
  /\ pc = "idle_sleep"
  /\ sleeping = IdleHalfSeconds
  /\ Len(roundYield) = 1
  /\ roundYield[1].kind = "post"

\* C18: the two streams are replaced together: whenever the generator polls,
\* yields or idles, both streams are the ones created in the current pass of
\* the outer loop, so after an error neither old stream is polled again and
\* every later item comes from a stream created after the handler's sleep.
Streaming ==
  pc \in {"drain_posts", "drain_comments", "idle_sleep"} \cup AtYield

C18_PairReplacedOnError ==
  /\ [](Streaming => (submissions_stream = attempts /\ comments_stream = attempts))
  /\ [][(pc = "connecting" /\ pc' = "drain_posts") =>
          /\ submissions_stream' > submissions_stream
          /\ comments_stream' > comments_stream
          /\ submissions_stream' = comments_stream']_vars
  /\ [][(pc = "classifying" /\ raisedAt \in {"poll", "idle_sleep", "yield"}) =>
          (pc' \in {"backing_off", "fixed_sleep", "finished"} /\ attempts' = attempts)]_vars
  /\ [][delivered' # delivered =>
          /\ Len(delivered') = Len(delivered) + 1
          /\ delivered'[Len(delivered')].pair = attempts
          /\ \A i \in DOMAIN delivered :
               delivered[i].pair <= delivered'[Len(delivered')].pair]_vars

C18_Witness ==
  /\ Len(delivered) = 2
  /\ delivered[1].kind = "comment" /\ delivered[1].pair = 1
  /\ delivered[2].kind = "comment" /\ delivered[2].pair = 3
  /\ sleepRun = << >>

\* C19: unless a KeyboardInterrupt arrives, every transient or unclassified
\* error caught in the try is followed by another pass of the outer loop
\* (another creation of the streams), after a sleep of at most 180 seconds;
\* stated for the passes the model's bound MaxAttempts leaves room for.
C19_RetriedLeadsToReconnect ==
  /\ [](sleeping <= 2 * 180)
  /\ \A k \in 1 .. (MaxAttempts - 1) :
       (pc = "classifying" /\ raised \in RetriedErrors /\ attempts = k)
         ~> (attempts = k + 1 \/ raised = "KeyboardInterrupt")

C19_Witness ==
  /\ attempts = MaxAttempts
  /\ pc = "drain_posts"
  /\ Len(sleepRun) = MaxAttempts - 1
  /\ signals = << >>

====
